---- MODULE Spec2Model ----
(***************************************************************************)
(* jsonclip (src/index.js): the path extractor extractPath, the diagnosing *)
(* parser safeParse, and the command-line pipeline main.                   *)
(*                                                                         *)
(* JavaScript strings are sequences of one-character strings, so that      *)
(* splitting, trimming and column arithmetic are computed, not assumed.    *)
(* JavaScript values are records tagged by the field t.                    *)
(***************************************************************************)
EXTENDS Integers, Sequences, FiniteSets, TLC

VARIABLES
    eObj,      \* extractPath: argument obj
    ePath,     \* extractPath: argument path
    eRet,      \* extractPath: completion (pending / return / throw)
    pText,     \* safeParse: the text whose native parse failed
    pPos,      \* safeParse: the offset in the native parser's message
    pRet,      \* safeParse: the diagnostic that was thrown
    pc,        \* main: where the run stands
    argv,      \* main: process.argv.slice(2)
    isTTY,     \* main: process.stdin.isTTY
    stdinText, \* main: what the standard input stream will deliver
    stdinBuf,  \* main: the variable data of lines 201-203
    clipboard, \* main: the system clipboard
    options,   \* main: the options object of lines 151-155
    data,      \* main: completion of safeParse (line 224)
    value,     \* main: completion of extractPath (line 233)
    console,   \* main: the lines written to stdout and stderr, in order
    exitCode,  \* main: <<>> while running, <<status>> once exited
    trace      \* main: the pipeline steps taken, in order

extractVars == <<eObj, ePath, eRet>>
parseVars == <<pText, pPos, pRet>>
mainVars == <<pc, argv, isTTY, stdinText, stdinBuf, clipboard, options, data,
              value, console, exitCode, trace>>
vars == <<extractVars, parseVars, mainVars>>

-----------------------------------------------------------------------------
(* Bounds *)

MaxPathLen == 3     \* longest generated path string
MaxArrLen == 1      \* longest generated array
MaxTextLen == 4     \* longest generated input text
MaxArgs == 3        \* most command-line arguments

-----------------------------------------------------------------------------
(* JavaScript values *)

Null == [t |-> "null"]
Undefined == [t |-> "undefined"]
Bool(b) == [t |-> "boolean", v |-> b]
Num(n) == [t |-> "number", v |-> n]
Str(s) == [t |-> "string", v |-> s]
Arr(items) == [t |-> "array", v |-> items]
Obj(members) == [t |-> "object", v |-> members]
\* a built-in function object reached through a prototype
Fn(owner, name) == [t |-> "function", v |-> name, of |-> owner]
ObjectPrototype == [t |-> "prototype", v |-> "Object"]
ArrayPrototype == [t |-> "prototype", v |-> "Array"]

\* completions of a call
Pending == [k |-> "pending"]
Return(v) == [k |-> "return", v |-> v]
Throw(e) == [k |-> "throw", v |-> e]

\* typeof
TypeOf(x) ==
    CASE x.t \in {"null", "array", "object", "prototype"} -> "object"
      [] OTHER -> x.t

\* Array.isArray (Array.prototype is itself an array)
IsArray(x) == x.t = "array" \/ x = ArrayPrototype

\* x == null
IsNullish(x) == x.t \in {"null", "undefined"}

-----------------------------------------------------------------------------
(* Property names every object inherits *)

ObjectPrototypeKeys ==
    { <<"c","o","n","s","t","r","u","c","t","o","r">>,
      <<"t","o","S","t","r","i","n","g">>,
      <<"t","o","L","o","c","a","l","e","S","t","r","i","n","g">>,
      <<"v","a","l","u","e","O","f">>,
      <<"h","a","s","O","w","n","P","r","o","p","e","r","t","y">>,
      <<"i","s","P","r","o","t","o","t","y","p","e","O","f">>,
      <<"p","r","o","p","e","r","t","y","I","s","E","n","u","m","e","r","a","b","l","e">>,
      <<"_","_","p","r","o","t","o","_","_">>,
      <<"_","_","d","e","f","i","n","e","G","e","t","t","e","r","_","_">>,
      <<"_","_","d","e","f","i","n","e","S","e","t","t","e","r","_","_">>,
      <<"_","_","l","o","o","k","u","p","G","e","t","t","e","r","_","_">>,
      <<"_","_","l","o","o","k","u","p","S","e","t","t","e","r","_","_">> }

ProtoKey == <<"_","_","p","r","o","t","o","_","_">>
LengthKey == <<"l","e","n","g","t","h">>

\* own properties of Array.prototype other than length (a representative
\* part of the built-in list; every one of them is a function)
ArrayPrototypeKeys ==
    { <<"c","o","n","s","t","r","u","c","t","o","r">>,
      <<"t","o","S","t","r","i","n","g">>,
      <<"m","a","p">>, <<"p","o","p">>, <<"p","u","s","h">>,
      <<"j","o","i","n">>, <<"k","e","y","s">>, <<"a","t">> }

Digits == {"0", "1", "2", "3", "4", "5", "6", "7", "8", "9"}

DigitVal(c) ==
    CASE c = "0" -> 0 [] c = "1" -> 1 [] c = "2" -> 2 [] c = "3" -> 3
      [] c = "4" -> 4 [] c = "5" -> 5 [] c = "6" -> 6 [] c = "7" -> 7
      [] c = "8" -> 8 [] c = "9" -> 9

\* /^\d+$/.test(part)
IsDigits(part) == part # <<>> /\ \A i \in 1..Len(part) : part[i] \in Digits

\* parseInt(part) for a digits-only part
RECURSIVE parseInt(_)
parseInt(part) ==
    IF part = <<>> THEN 0
    ELSE 10 * parseInt(SubSeq(part, 1, Len(part) - 1)) + DigitVal(part[Len(part)])

\* String(n) for a natural number n
RECURSIVE DecimalString(_)
DecimalString(n) ==
    LET d == CHOOSE c \in Digits : DigitVal(c) = n % 10
    IN  IF n < 10 THEN <<d>> ELSE DecimalString(n \div 10) \o <<d>>

\* str.split(sep) for single-character separators: the pieces between
\* separators, empty pieces included
RECURSIVE Split(_, _)
Split(s, seps) ==
    IF \E i \in 1..Len(s) : s[i] \in seps
    THEN LET i == CHOOSE j \in 1..Len(s) :
                      s[j] \in seps /\ \A k \in 1..(j - 1) : s[k] \notin seps
         IN  <<SubSeq(s, 1, i - 1)>> \o Split(SubSeq(s, i + 1, Len(s)), seps)
    ELSE <<s>>

\* array.filter(p => p !== '')
RECURSIVE FilterNonEmpty(_)
FilterNonEmpty(ps) ==
    IF ps = <<>> THEN <<>>
    ELSE IF Head(ps) = <<>> THEN FilterNonEmpty(Tail(ps))
         ELSE <<Head(ps)>> \o FilterNonEmpty(Tail(ps))

-----------------------------------------------------------------------------
(* extractPath, src/index.js 125-143 *)

\* path.split(/\.|\[|\]/).filter(p => p !== '')
splitPath(path) == FilterNonEmpty(Split(path, {".", "[", "]"}))

\* the names for which  name in x  is true
PropertyNames(x) ==
    CASE x.t = "object" -> DOMAIN x.v \cup ObjectPrototypeKeys
      [] x.t = "array" ->
            {DecimalString(i - 1) : i \in 1..Len(x.v)} \cup {LengthKey}
                \cup ArrayPrototypeKeys \cup ObjectPrototypeKeys
      [] x = ArrayPrototype ->
            {LengthKey} \cup ArrayPrototypeKeys \cup ObjectPrototypeKeys
      [] OTHER -> ObjectPrototypeKeys

\* Object.getPrototypeOf(x)
PrototypeOf(x) ==
    CASE x.t = "array" -> ArrayPrototype
      [] x = ArrayPrototype -> ObjectPrototype
      [] x = ObjectPrototype -> Null
      [] OTHER -> ObjectPrototype

\* current[part] for an object current and a name with  part in current
GetProperty(x, part) ==
    IF x.t = "object" /\ part \in DOMAIN x.v THEN x.v[part]
    ELSE IF x.t = "array" /\ part \in {DecimalString(i - 1) : i \in 1..Len(x.v)}
         THEN x.v[parseInt(part) + 1]
    ELSE IF IsArray(x) /\ part = LengthKey
         THEN Num(IF x.t = "array" THEN Len(x.v) ELSE 0)
    ELSE IF part = ProtoKey THEN PrototypeOf(x)
    ELSE IF IsArray(x) /\ part \in ArrayPrototypeKeys THEN Fn("Array", part)
    ELSE Fn("Object", part)

\* current[parseInt(part)] for an array current
ElementAt(x, n) ==
    IF x.t = "array" /\ n < Len(x.v) THEN x.v[n + 1] ELSE Undefined

\* the operator  part in x : a TypeError when x is not an object
InOperator(part, x) ==
    IF x.t \notin {"array", "object", "prototype", "function"} THEN "TypeError"
    ELSE IF part \in PropertyNames(x) THEN "true" ELSE "false"

\* line 130 with  === undefined  in place of  == null
isAbsent_strict(current) == current.t = "undefined"

\* line 130:  current == null
isAbsent(current) == IsNullish(current)

\* line 133:  Array.isArray(current) && /^\d+$/.test(part)
isIndexStep(current, part) == IsArray(current) /\ IsDigits(part)

\* line 135 without the typeof guard
hasKey_unguarded(current, part) == InOperator(part, current)

\* line 135 with digit tokens reserved for arrays
hasKey_noDigits(current, part) ==
    IF TypeOf(current) # "object" \/ IsDigits(part) THEN "false"
    ELSE InOperator(part, current)

\* line 135:  typeof current === 'object' && part in current
hasKey(current, part) ==
    IF TypeOf(current) # "object" THEN "false" ELSE InOperator(part, current)

\* the for loop of lines 129-140 and the return of line 142
RECURSIVE walk(_, _)
walk(current, parts) ==
    IF parts = <<>> THEN Return(current)
    ELSE LET part == Head(parts)
             rest == Tail(parts)
         IN  IF isAbsent(current) THEN Return(Undefined)
             ELSE IF isIndexStep(current, part)
                  THEN walk(ElementAt(current, parseInt(part)), rest)
             ELSE LET c == hasKey(current, part)
                  IN  IF c = "TypeError" THEN Throw([error |-> "TypeError"])
                      ELSE IF c = "true"
                           THEN walk(GetProperty(current, part), rest)
                      ELSE Return(Undefined)

extractPath(obj, path) == walk(obj, splitPath(path))

-----------------------------------------------------------------------------
(* Inputs of extractPath *)

KeyA == <<"a">>
Key0 == <<"0">>
Keys == {KeyA, Key0}

Scalars == {Null, Bool(TRUE), Num(9), Str(<<"J", "o">>)}

SeqsUpTo(S, n) == UNION {[1..k -> S] : k \in 0..n}

\* arrays and objects whose members are drawn from S
Containers(S) ==
    {Arr(s) : s \in SeqsUpTo(S, MaxArrLen)}
        \cup {Obj(f) : f \in UNION {[K -> S] : K \in SUBSET Keys}}

\* a value put under one key or into a one-element array
Wrap(S) ==
    {Obj(KeyA :> x) : x \in S} \cup {Obj(Key0 :> x) : x \in S}
        \cup {Arr(<<x>>) : x \in S}

Level1 == Scalars \cup Containers(Scalars)

DataKey == <<"d","a","t","a">>
ItemsKey == <<"i","t","e","m","s">>
PriceKey == <<"p","r","i","c","e">>
UserKey == <<"u","s","e","r">>
NameKey == <<"n","a","m","e">>

SampleDocs ==
    { Obj(DataKey :> Obj(ItemsKey :> Arr(<<Obj(PriceKey :> Num(9))>>))),
      Obj(UserKey :> Obj(NameKey :> Str(<<"J", "o">>))),
      Obj(KeyA :> Num(1)),
      Obj(ProtoKey :> Num(1)),
      Arr(<<Num(1), Arr(<<Null, Num(2)>>)>>) }

Docs == Level1 \cup Wrap(Level1) \cup Wrap(Wrap(Level1)) \cup SampleDocs

PathChars == {".", "[", "]", "a", "0"}

SamplePaths ==
    { <<"d","a","t","a",".","i","t","e","m","s","[","0","]",".","p","r","i","c","e">>,
      <<"u","s","e","r",".","e","m","a","i","l">>,
      <<"u","s","e","r",".","n","a","m","e">>,
      <<"a",".","b",".","c">>,
      <<"t","o","S","t","r","i","n","g">>,
      <<"c","o","n","s","t","r","u","c","t","o","r">>,
      <<"l","e","n","g","t","h">>,
      <<"a",".","l","e","n","g","t","h">>,
      <<"_","_","p","r","o","t","o","_","_">>,
      <<"_","_","p","r","o","t","o","_","_",".","_","_","p","r","o","t","o","_","_",".","a">>,
      <<"[","1","]">>, <<"[","1","]","[","1","]">>, <<"a","[","0","]",".","a">>,
      <<"a",".","0",".","0">> }

Paths == SeqsUpTo(PathChars, MaxPathLen) \cup SamplePaths

-----------------------------------------------------------------------------
(* Inputs of safeParse *)

TextChars == {"x", "}", "\n"}
Texts == SeqsUpTo(TextChars, MaxTextLen)

-----------------------------------------------------------------------------
(* The parts of the state a specification does not use stay at rest *)

ExtractIdle == eObj = Null /\ ePath = <<>> /\ eRet = Pending

ParseIdle == pText = <<>> /\ pPos = 0 /\ pRet = Pending

MainIdle ==
    /\ pc = "idle"
    /\ argv = <<>>
    /\ isTTY = TRUE
    /\ stdinText = <<>>
    /\ stdinBuf = <<>>
    /\ clipboard = [ok |-> TRUE, text |-> <<>>, written |-> <<>>]
    /\ options = [path |-> Null, copy |-> FALSE, color |-> TRUE]
    /\ data = Pending
    /\ value = Pending
    /\ console = <<>>
    /\ exitCode = <<>>
    /\ trace = <<>>

-----------------------------------------------------------------------------
(* Specification of extractPath: the arguments are drawn, the call is made *)

InitExtract ==
    /\ eObj \in Docs
    /\ ePath \in Paths
    /\ eRet = Pending
    /\ ParseIdle
    /\ MainIdle

CallExtractPath ==
    /\ eRet = Pending
    /\ eRet' = extractPath(eObj, ePath)
    /\ UNCHANGED <<eObj, ePath, parseVars, mainVars>>

NextExtract == CallExtractPath

SpecExtract == InitExtract /\ [][NextExtract]_vars

-----------------------------------------------------------------------------
(* safeParse, src/index.js 28-62: the catch block for a native parse      *)
(* error whose message carries "position <digits>"                         *)

Spaces(n) == [i \in 1..n |-> " "]

\* the loop of lines 38-45 with  >  in place of  >=
RECURSIVE locate_strict(_, _, _, _)
locate_strict(lines, position, i, chars) ==
    IF i > Len(lines) THEN [line |-> 1, col |-> 1]
    ELSE IF chars + Len(lines[i]) > position
         THEN [line |-> i, col |-> position - chars + 1]
    ELSE locate_strict(lines, position, i + 1, chars + Len(lines[i]) + 1)

\* lines 36-45: i is the 1-based index of the line under test, chars the
\* characters before it; line and col stay 1 when no line is found
RECURSIVE locate(_, _, _, _)
locate(lines, position, i, chars) ==
    IF i > Len(lines) THEN [line |-> 1, col |-> 1]
    ELSE IF chars + Len(lines[i]) >= position
         THEN [line |-> i, col |-> position - chars + 1]
    ELSE locate(lines, position, i + 1, chars + Len(lines[i]) + 1)

\* line 52, up to the line number:  "   Line "
LineRowPrefix == <<" ", " ", " ", "L", "i", "n", "e", " ">>

\* line 53, up to the pointer: twelve spaces
PointerRowPrefix ==
    <<" ", " ", " ", " ", " ", " ", " ", " ", " ", " ", " ", " ">>

\* lines 32-58: the located line and column and the two rendered rows
diagnose(str, position) ==
    LET lines == Split(str, {"\n"})
        at == locate(lines, position, 1, 0)
        errorLine == lines[at.line]
        pointer == Spaces(at.col - 1) \o <<"^">>
    IN  [ line |-> at.line,
          col |-> at.col,
          errorLine |-> errorLine,
          lineRow |-> LineRowPrefix \o DecimalString(at.line) \o <<":", " ">>
                          \o errorLine,
          pointerRow |-> PointerRowPrefix \o pointer ]

-----------------------------------------------------------------------------
(* Specification of safeParse's localization: a text and the offset at    *)
(* which the native parser rejected it are drawn, the diagnostic is built  *)

InitParse ==
    /\ pText \in Texts
    /\ pPos \in 0..Len(pText)
    /\ pRet = Pending
    /\ ExtractIdle
    /\ MainIdle

CallSafeParse ==
    /\ pRet = Pending
    /\ pRet' = Throw(diagnose(pText, pPos))
    /\ UNCHANGED <<pText, pPos, extractVars, mainVars>>

NextParse == CallSafeParse

SpecParse == InitParse /\ [][NextParse]_vars

-----------------------------------------------------------------------------
(* The native parser JSON.parse (line 30), on the texts of the runs below  *)

Whitespace == {" ", "\n", "\t", "\r"}

\* number of leading whitespace characters
RECURSIVE LeadingWs(_)
LeadingWs(s) ==
    IF s # <<>> /\ Head(s) \in Whitespace THEN 1 + LeadingWs(Tail(s)) ELSE 0

RECURSIVE TrailingWs(_)
TrailingWs(s) ==
    IF s # <<>> /\ s[Len(s)] \in Whitespace
    THEN 1 + TrailingWs(SubSeq(s, 1, Len(s) - 1))
    ELSE 0

\* String.prototype.trim
trim(s) ==
    IF LeadingWs(s) = Len(s) THEN <<>>
    ELSE SubSeq(s, LeadingWs(s) + 1, Len(s) - TrailingWs(s))

TNull == <<"n", "u", "l", "l">>
TArr9 == <<"[", "9", "]">>
TObjANull == <<"{", "\"", "a", "\"", ":", "n", "u", "l", "l", "}">>
TObj0 == <<"{", "\"", "0", "\"", ":", "9", "}">>
TTrailingComma == <<"{", "\"", "a", "\"", ":", "1", ",", "}">>
TSecondLine == <<"[", "9", ",", "\n", "]">>
TOpen == <<"[">>

EndOfInput == [header |-> "Unexpected end of JSON input", pos |-> <<>>]

\* what the native parser makes of a text without surrounding whitespace:
\* a value, or a SyntaxError whose message may carry "position <n>"
ParseTable ==
    { [text |-> TNull, result |-> Return(Null)],
      [text |-> TArr9, result |-> Return(Arr(<<Num(9)>>))],
      [text |-> TObjANull, result |-> Return(Obj(KeyA :> Null))],
      [text |-> TObj0, result |-> Return(Obj(Key0 :> Num(9)))],
      [text |-> TTrailingComma,
       result |-> Throw([header |-> "Unexpected token } in ", pos |-> <<7>>])],
      [text |-> TSecondLine,
       result |-> Throw([header |-> "Unexpected token ] in ", pos |-> <<4>>])],
      [text |-> TOpen, result |-> Throw(EndOfInput)] }

\* JSON.parse(str): surrounding whitespace is skipped and counts in the
\* reported position
JSONparse(str) ==
    LET core == trim(str)
        lead == LeadingWs(str)
    IN  IF \E e \in ParseTable : e.text = core
        THEN LET r == (CHOOSE e \in ParseTable : e.text = core).result
             IN  IF r.k = "throw" /\ r.v.pos # <<>>
                 THEN Throw([r.v EXCEPT !.pos = <<r.v.pos[1] + lead>>])
                 ELSE r
        ELSE Throw(EndOfInput)

\* lines 28-62
safeParse(str) ==
    LET r == JSONparse(str)
    IN  IF r.k = "return" THEN r
        ELSE IF r.v.pos # <<>>
             THEN Throw([header |-> r.v.header, at |-> diagnose(str, r.v.pos[1])])
        ELSE r

-----------------------------------------------------------------------------
(* main, src/index.js 149-268 *)

FlagP == <<"-", "p">>
FlagPath == <<"-", "-", "p", "a", "t", "h">>
FlagC == <<"-", "c">>
FlagCopy == <<"-", "-", "c", "o", "p", "y">>
FlagNoColor == <<"-", "-", "n", "o", "-", "c", "o", "l", "o", "r">>
FlagH == <<"-", "h">>
FlagHelp == <<"-", "-", "h", "e", "l", "p">>
FlagV == <<"-", "v">>
FlagVersion == <<"-", "-", "v", "e", "r", "s", "i", "o", "n">>

\* lines 151-155
DefaultOptions == [path |-> Null, copy |-> FALSE, color |-> TRUE]

\* the loop of lines 158-195: the options gathered, and whether the loop
\* stopped at a help or version flag
RECURSIVE parseArgs(_, _, _)
parseArgs(args, i, opts) ==
    IF i > Len(args) THEN [options |-> opts, stop |-> "none"]
    ELSE LET arg == args[i]
         IN  IF arg \in {FlagP, FlagPath}
             THEN parseArgs(args, i + 2,
                      [opts EXCEPT !.path = IF i + 1 <= Len(args)
                                            THEN Str(args[i + 1])
                                            ELSE Undefined])
             ELSE IF arg \in {FlagC, FlagCopy}
                  THEN parseArgs(args, i + 1, [opts EXCEPT !.copy = TRUE])
             ELSE IF arg = FlagNoColor
                  THEN parseArgs(args, i + 1, [opts EXCEPT !.color = FALSE])
             ELSE IF arg \in {FlagH, FlagHelp}
                  THEN [options |-> opts, stop |-> "help"]
             ELSE IF arg \in {FlagV, FlagVersion}
                  THEN [options |-> opts, stop |-> "version"]
             ELSE parseArgs(args, i + 1, opts)

\* the truth value of x in a condition
Truthy(x) ==
    CASE x.t \in {"null", "undefined"} -> FALSE
      [] x.t = "string" -> x.v # <<>>
      [] x.t = "boolean" -> x.v
      [] x.t = "number" -> x.v # 0
      [] OTHER -> TRUE

\* line 234 with  === null
isNotFound_null(v) == v = Null

\* line 234 with  == null
isNotFound_loose(v) == IsNullish(v)

\* line 234:  value === undefined
isNotFound(v) == v = Undefined

\* lines 242 and 257 with the test left out
wantsCopy_always(opts) == TRUE

\* lines 242 and 257:  if (options.copy)
wantsCopy(opts) == opts.copy

\* console.log in place of console.error
errorStream_log == "stdout"

\* console.error, lines 209-210, 216-217, 226-227, 235, 265-266
errorStream == "stderr"

Out(what, arg) == [stream |-> "stdout", what |-> what, arg |-> arg]
Err(what, arg) == [stream |-> errorStream, what |-> what, arg |-> arg]

\* lines 238-240 and 250-252: the text printed for a value
formatted(v, opts) ==
    [how |-> IF opts.color THEN "highlightJson" ELSE "JSON.stringify", value |-> v]

\* line 243: the text copied for an extracted value
copiedValue(v) ==
    [how |-> IF TypeOf(v) = "object" THEN "JSON.stringify" ELSE "String", value |-> v]

\* line 258: the text copied for the whole document
copiedDocument(v) == [how |-> "JSON.stringify", value |-> v]

\* lines 264-268: the handler of a rejected main
UnexpectedError(e) == <<Err("unexpected-error", Null), Err("message", e)>>

Exit(status) == pc' = "exited" /\ exitCode' = <<status>>

\* lines 158-213 up to the first await: the arguments are parsed; help and
\* version end the run; otherwise the input acquisition is started
Start ==
    /\ pc = "start"
    /\ LET parsed == parseArgs(argv, 1, DefaultOptions)
       IN  /\ options' = parsed.options
           /\ IF parsed.stop = "help"
              THEN /\ console' = console \o <<Out("help", Null)>>
                   /\ Exit(0)
                   /\ UNCHANGED trace
              ELSE IF parsed.stop = "version"
              THEN \E packageReadable \in BOOLEAN :
                      /\ IF packageReadable
                         THEN console' = console \o <<Out("version", Null)>>
                                  /\ Exit(0)
                         ELSE console' = console \o UnexpectedError([message |-> "package.json"])
                                  /\ Exit(1)
                      /\ UNCHANGED trace
              ELSE IF ~isTTY
              THEN /\ pc' = "awaitStdin"
                   /\ trace' = trace \o <<"stdin">>
                   /\ UNCHANGED <<console, exitCode>>
              ELSE /\ pc' = "awaitClipboardRead"
                   /\ trace' = trace \o <<"clipboard.read">>
                   /\ UNCHANGED <<console, exitCode>>
    /\ UNCHANGED <<argv, isTTY, stdinText, stdinBuf, clipboard, data, value>>
    /\ UNCHANGED <<extractVars, parseVars>>

\* lines 250-260 and 238-246 up to the await of the clipboard write: v is
\* printed and, with --copy, the write is started; otherwise main returns
Render(v, steps) ==
    /\ console' = console \o <<Out("formatted", formatted(v, options))>>
    /\ IF wantsCopy(options)
       THEN /\ pc' = "awaitClipboardWrite"
            /\ trace' = trace \o steps \o <<"render", "clipboard.write">>
            /\ UNCHANGED exitCode
       ELSE /\ trace' = trace \o steps \o <<"render">>
            /\ Exit(0)

\* lines 215-260 up to the next await, for the acquired text str
Proceed(str) ==
    IF ~Truthy(str)
    THEN /\ console' = console \o <<Err("no-json", Null), Err("hint", Null)>>
         /\ Exit(1)
         /\ UNCHANGED <<data, value, trace>>
    ELSE LET parsed == safeParse(str.v)
         IN  /\ data' = parsed
             /\ IF parsed.k = "throw"
                THEN /\ console' = console \o <<Err("invalid-json", Null),
                                                 Err("message", parsed.v)>>
                     /\ Exit(1)
                     /\ trace' = trace \o <<"parse">>
                     /\ UNCHANGED value
                ELSE IF Truthy(options.path)
                THEN LET found == extractPath(parsed.v, options.path.v)
                     IN  /\ value' = found
                         /\ IF found.k = "throw"
                            THEN /\ console' = console \o UnexpectedError(found.v)
                                 /\ Exit(1)
                                 /\ trace' = trace \o <<"parse", "extract">>
                            ELSE IF isNotFound(found.v)
                            THEN /\ console' = console \o
                                        <<Err("path-not-found", options.path)>>
                                 /\ Exit(1)
                                 /\ trace' = trace \o <<"parse", "extract">>
                            ELSE Render(found.v, <<"parse", "extract">>)
                ELSE /\ Render(parsed.v, <<"parse">>)
                     /\ UNCHANGED value

\* line 202: a chunk of standard input arrives
StdinData ==
    /\ pc = "awaitStdin"
    /\ \E n \in 1..(Len(stdinText) - Len(stdinBuf)) :
           stdinBuf' = SubSeq(stdinText, 1, Len(stdinBuf) + n)
    /\ UNCHANGED <<pc, argv, isTTY, stdinText, clipboard, options, data, value,
                   console, exitCode, trace>>
    /\ UNCHANGED <<extractVars, parseVars>>

\* line 203: standard input ends; main resumes with the trimmed data
StdinEnd ==
    /\ pc = "awaitStdin"
    /\ stdinBuf = stdinText
    /\ Proceed(Str(trim(stdinBuf)))
    /\ UNCHANGED <<argv, isTTY, stdinText, stdinBuf, clipboard, options>>
    /\ UNCHANGED <<extractVars, parseVars>>

\* line 207: the clipboard read resolves; main resumes with its text
ClipboardReadDone ==
    /\ pc = "awaitClipboardRead"
    /\ clipboard.ok
    /\ Proceed(Str(clipboard.text))
    /\ UNCHANGED <<argv, isTTY, stdinText, stdinBuf, clipboard, options>>
    /\ UNCHANGED <<extractVars, parseVars>>

\* lines 208-212: the clipboard read rejects
ClipboardReadFailed ==
    /\ pc = "awaitClipboardRead"
    /\ ~clipboard.ok
    /\ console' = console \o <<Err("clipboard-read-failed", Null),
                                Err("message", [message |-> "clipboard"])>>
    /\ Exit(1)
    /\ UNCHANGED <<argv, isTTY, stdinText, stdinBuf, clipboard, options, data,
                   value, trace>>
    /\ UNCHANGED <<extractVars, parseVars>>

\* lines 243-246 and 258-261: the clipboard write resolves; main returns
ClipboardWriteDone ==
    /\ pc = "awaitClipboardWrite"
    /\ clipboard' =
           [clipboard EXCEPT
               !.written = @ \o <<IF value # Pending THEN copiedValue(value.v)
                                  ELSE copiedDocument(data.v)>>]
    /\ console' = console \o <<Out("copied", Null)>>
    /\ Exit(0)
    /\ UNCHANGED <<argv, isTTY, stdinText, stdinBuf, options, data, value, trace>>
    /\ UNCHANGED <<extractVars, parseVars>>

\* the clipboard write rejects: main rejects and the handler of lines
\* 264-268 runs
ClipboardWriteFailed ==
    /\ pc = "awaitClipboardWrite"
    /\ console' = console \o UnexpectedError([message |-> "clipboard"])
    /\ Exit(1)
    /\ UNCHANGED <<argv, isTTY, stdinText, stdinBuf, clipboard, options, data,
                   value, trace>>
    /\ UNCHANGED <<extractVars, parseVars>>

-----------------------------------------------------------------------------
(* Specification of main: one invocation of the command *)

ArgTokens ==
    { FlagP, FlagPath, FlagC, FlagCopy, FlagNoColor, FlagH, FlagHelp, FlagV,
      FlagVersion, <<>>, <<"a">>, <<"a", ".", "b">> }

Pad(s) == <<" ">> \o s \o <<"\n">>

StdinTexts ==
    { <<>>, <<" ", "\n">>, Pad(TNull), TObjANull, TArr9, TTrailingComma,
      TSecondLine, TOpen }

ClipboardTexts ==
    { <<>>, <<" ">>, TNull, TObjANull, Pad(TObj0), TTrailingComma,
      Pad(TSecondLine) }

Init ==
    /\ pc = "start"
    /\ argv \in SeqsUpTo(ArgTokens, MaxArgs)
    /\ isTTY \in BOOLEAN
    /\ IF isTTY
       THEN /\ stdinText = <<>>
            /\ clipboard \in
                   {[ok |-> FALSE, text |-> <<>>, written |-> <<>>]}
                       \cup {[ok |-> TRUE, text |-> t, written |-> <<>>] :
                                 t \in ClipboardTexts}
       ELSE /\ stdinText \in StdinTexts
            /\ clipboard = [ok |-> TRUE, text |-> <<>>, written |-> <<>>]
    /\ stdinBuf = <<>>
    /\ options = DefaultOptions
    /\ data = Pending
    /\ value = Pending
    /\ console = <<>>
    /\ exitCode = <<>>
    /\ trace = <<>>
    /\ ExtractIdle
    /\ ParseIdle

Next ==
    \/ Start
    \/ StdinData
    \/ StdinEnd
    \/ ClipboardReadDone
    \/ ClipboardReadFailed
    \/ ClipboardWriteDone
    \/ ClipboardWriteFailed

Spec == Init /\ [][Next]_vars

-----------------------------------------------------------------------------
(* Properties of extractPath *)

\* the tokens of the call in progress
Parts == splitPath(ePath)

\* the value held in current after the first i tokens (Undefined once the
\* fold has given up)
After(i) ==
    LET r == walk(eObj, SubSeq(Parts, 1, i))
    IN  IF r.k = "return" THEN r.v ELSE Undefined

IsScalar(x) == x.t \in {"boolean", "number", "string"}

\* every value nested in x, x included
RECURSIVE SubValues(_)
SubValues(x) ==
    IF x.t = "array" THEN {x} \cup UNION {SubValues(x.v[i]) : i \in DOMAIN x.v}
    ELSE IF x.t = "object"
         THEN {x} \cup UNION {SubValues(x.v[k]) : k \in DOMAIN x.v}
    ELSE {x}

\* C1: extractPath never throws: for every JSON value and every path string,
\* malformed ones included, the call completes by returning a value or
\* undefined (NotFound).
C1_ExtractTotal == eRet # Pending => eRet.k = "return"

\* C1 witness: a scalar met with a token left, under an unbalanced bracket
C1_Witness ==
    /\ eRet = Return(Undefined)
    /\ eObj = Obj(KeyA :> Num(9))
    /\ ePath = <<"a", "[", "a">>

\* C2: every result other than NotFound is a sub-value of the input JSON
\* value: a token that is not a key of the parsed object (an inherited name
\* such as toString) or a non-digit token on a sequence (length) is NotFound.
C2_OnlySubValues ==
    eRet # Pending =>
        /\ eRet.k = "return"
        /\ eRet.v = Undefined \/ eRet.v \in SubValues(eObj)

\* C3 as claimed: a digits-only token applied to a mapping that has that
\* token as a key does not return the key's value.
C3_DigitKeyUnreachable ==
    eRet # Pending =>
        \A i \in 1..Len(Parts) :
            LET cur == After(i - 1)
            IN  (/\ i = Len(Parts)
                 /\ cur.t = "object"
                 /\ IsDigits(Parts[i])
                 /\ Parts[i] \in DOMAIN cur.v)
                    => eRet # Return(cur.v[Parts[i]])

\* C3 as amended: a digits-only token is an array index only when the
\* current value is a sequence; applied to a mapping that has the token as
\* a key it is looked up as a key and the key's value is returned.
C3_DigitKeyReached ==
    eRet # Pending =>
        \A i \in 1..Len(Parts) :
            LET cur == After(i - 1)
            IN  (/\ i = Len(Parts)
                 /\ cur.t = "object"
                 /\ IsDigits(Parts[i])
                 /\ Parts[i] \in DOMAIN cur.v)
                    => eRet = Return(cur.v[Parts[i]])

\* C3 witness: "a.0" on {"a": {"0": 9}} returned 9
C3_Witness ==
    /\ eObj = Obj(KeyA :> Obj(Key0 :> Num(9)))
    /\ ePath = <<"a", ".", "0">>
    /\ eRet = Return(Num(9))

\* C4: once the value reached after a proper prefix of the tokens is null,
\* absent or a scalar, the result is NotFound whatever tokens remain; an
\* out-of-range index as the last token is NotFound too.
C4_ShortCircuit ==
    eRet # Pending =>
        /\ \A i \in 0..(Len(Parts) - 1) :
               (IsNullish(After(i)) \/ IsScalar(After(i)))
                   => eRet = Return(Undefined)
        /\ \A i \in 1..Len(Parts) :
               LET cur == After(i - 1)
               IN  (/\ i = Len(Parts)
                    /\ cur.t = "array"
                    /\ IsDigits(Parts[i])
                    /\ parseInt(Parts[i]) >= Len(cur.v))
                       => eRet = Return(Undefined)

\* C4 witness: a JSON null in the middle of the path, tokens remaining
C4_Witness ==
    /\ eRet = Return(Undefined)
    /\ Len(Parts) = 2
    /\ After(1) = Null
    /\ eObj.t = "object"

-----------------------------------------------------------------------------
(* Properties of safeParse *)

\* counting by hand in the text: offset o is the 1-based index o + 1
NewlinesBefore(text, o) == Cardinality({j \in 1..o : text[j] = "\n"})

\* 0-based index of the first character of the line holding offset o
LineStart(text, o) ==
    IF \E j \in 1..o : text[j] = "\n"
    THEN CHOOSE j \in 1..o :
             text[j] = "\n" /\ \A k \in (j + 1)..o : text[k] # "\n"
    ELSE 0

\* the text of the line holding offset o
LineAt(text, o) ==
    LET from == LineStart(text, o) + 1
        ends == {j \in from..Len(text) : text[j] = "\n"}
        to == IF ends = {} THEN Len(text)
              ELSE (CHOOSE j \in ends : \A k \in ends : j <= k) - 1
    IN  SubSeq(text, from, to)

\* C6: for every text and every failure offset o in 0..length, the line is
\* 1 + the number of newlines before o, the column is o minus the index of
\* the first character of that line plus 1, and the reported line text is
\* the line containing o.
C6_LineColumn ==
    pRet # Pending =>
        /\ pRet.v.line = 1 + NewlinesBefore(pText, pPos)
        /\ pRet.v.col = pPos - LineStart(pText, pPos) + 1
        /\ pRet.v.errorLine = LineAt(pText, pPos)

\* C6 witness: the offset falls on a newline character of the second line
C6_Witness ==
    /\ pRet # Pending
    /\ pPos < Len(pText)
    /\ pText[pPos + 1] = "\n"
    /\ pRet.v.line = 2
    /\ pRet.v.col = 2

-----------------------------------------------------------------------------
(* Properties of main *)

Exited == pc = "exited"

\* a line of the given kind was written to the given stream
Wrote(stream, what) ==
    \E i \in DOMAIN console : console[i].stream = stream /\ console[i].what = what

\* the value v was printed as the formatted result
Printed(v) ==
    \E i \in DOMAIN console :
        /\ console[i].stream = "stdout"
        /\ console[i].what = "formatted"
        /\ console[i].arg.value = v

Did(step) == \E i \in DOMAIN trace : trace[i] = step

\* the text main went on with after the acquisition
AcquiredText == IF isTTY THEN clipboard.text ELSE trim(stdinText)

\* the error conditions of a finished run, read off the inputs and locals
ReadFailed == Did("clipboard.read") /\ ~clipboard.ok
NoInput == (Did("stdin") \/ (Did("clipboard.read") /\ clipboard.ok)) /\ AcquiredText = <<>>
InvalidJson == data.k = "throw"
PathNotFound == value = Return(Undefined)
OtherError == Wrote("stderr", "unexpected-error")

C8_ExitStatus ==
    /\ Exited =>
           /\ exitCode \in {<<0>>, <<1>>}
           /\ exitCode = <<1>> <=>
                  ReadFailed \/ NoInput \/ InvalidJson \/ PathNotFound \/ OtherError
           /\ (Wrote("stdout", "help") \/ Wrote("stdout", "version"))
                  => exitCode = <<0>>
           /\ exitCode = <<0>> =>
                  \/ Wrote("stdout", "help")
                  \/ Wrote("stdout", "version")
                  \/ Wrote("stdout", "formatted")
    /\ ~Exited => exitCode = <<>>

\* C8 witness: the requested path was not found and the status is 1
C8_Witness ==
    /\ Exited
    /\ PathNotFound
    /\ exitCode = <<1>>
    /\ ~OtherError

Rank(step) ==
    CASE step \in {"stdin", "clipboard.read"} -> 1
      [] step = "parse" -> 2
      [] step = "extract" -> 3
      [] step = "render" -> 4
      [] step = "clipboard.write" -> 5

\* C9: the steps of a run are in the strict order acquire, parse, (extract),
\* render, (write clipboard): one acquisition at most, stdin or clipboard,
\* one clipboard write at most, and the write only with --copy, after parsing
\* (and extraction, if requested) succeeded and the formatted text was
\* written to standard output.
C9_StepOrder ==
    /\ \A i, j \in DOMAIN trace : i < j => Rank(trace[i]) < Rank(trace[j])
    /\ Len(clipboard.written) <= 1
    /\ clipboard.written # <<>> => Did("clipboard.write")
    /\ Did("clipboard.write") =>
           /\ options.copy
           /\ data.k = "return"
           /\ Truthy(options.path) =>
                  Did("extract") /\ value.k = "return" /\ value.v # Undefined
           /\ Did("render")
           /\ Wrote("stdout", "formatted")
    /\ Did("render") => Did("parse") /\ data.k = "return"
    /\ Did("extract") => Did("parse") /\ data.k = "return"
    /\ Did("parse") => Did("stdin") \/ Did("clipboard.read")

\* C9 witness: a run that took all five steps
C9_Witness ==
    /\ Exited
    /\ trace = <<"stdin", "parse", "extract", "render", "clipboard.write">>
    /\ Len(clipboard.written) = 1

\* the error report is the last thing the run wrote
ErrorReportedLast ==
    /\ Wrote("stderr", "message") \/ Wrote("stderr", "hint")
           \/ Wrote("stderr", "path-not-found")
    /\ \A i, j \in DOMAIN console :
           (i < j /\ console[i].stream = "stderr") => console[j].stream = "stderr"

\* C10 as claimed: a run that ends with status 1 reported the error on the
\* error stream as the last thing it did, and wrote no formatted result to
\* standard output or to the clipboard.
C10_NoPartialSuccess ==
    (Exited /\ exitCode = <<1>>) =>
        /\ ErrorReportedLast
        /\ ~Wrote("stdout", "formatted")
        /\ clipboard.written = <<>>

\* what holds of a run that ended with status 1
C10_FailedRun ==
    (Exited /\ exitCode = <<1>>) =>
        /\ ErrorReportedLast
        /\ clipboard.written = <<>>
        /\ Wrote("stdout", "formatted") =>
               /\ trace[Len(trace)] = "clipboard.write"
               /\ OtherError

\* C10 as amended: a run that ends with status 1 reported the error on the
\* error stream, took no step after exiting, and wrote nothing to the
\* clipboard; the formatted result is on standard output only when the error
\* is the failure of the clipboard write that follows the rendering.
C10_NoPartialSuccessButPrinted == []C10_FailedRun /\ [][~Exited]_vars

\* C10 witness: the clipboard write failed after the result was printed
C10_Witness ==
    /\ Exited
    /\ exitCode = <<1>>
    /\ Wrote("stdout", "formatted")
    /\ Did("clipboard.write")
    /\ clipboard.written = <<>>

=============================================================================
